---------------------------- MODULE Spec2Model ----------------------------
(***************************************************************************)
(* Delta shoreline model (yukms/DeltaShorelineModel): the numerical core   *)
(* of simplebox.py and advancedbox.py.                                     *)
(*                                                                         *)
(* Numbers.  The code computes in IEEE doubles.  The model computes in     *)
(* exact rationals extended with the three non-finite doubles:             *)
(*     [n |-> p, d |-> q], q > 0, gcd(p, q) = 1     the rational p/q       *)
(*     [n |-> 1, d |-> 0], [n |-> -1, d |-> 0]      +inf, -inf             *)
(*     [n |-> 0, d |-> 0]                           NaN                    *)
(* Comparisons follow IEEE: every ordered comparison with NaN is false.    *)
(* np.sqrt is exact on squares of rationals and otherwise rounded down to  *)
(* a multiple of 1/SqrtScale; np.sin is exact wherever the sine of a       *)
(* rational number of turns is rational (0, +-1/2, +-1) and otherwise      *)
(* within 0.002 of it (Bhaskara's rational form).                          *)
(***************************************************************************)
EXTENDS Integers, Sequences, FiniteSets, TLC

\* Samples on a time axis.  The code uses np.linspace(0, tmax, 500); the
\* model keeps the construction and shortens the axis.
NumSamples == 3

\* np.sqrt of a non-square is rounded down to a multiple of 1/SqrtScale.
SqrtScale == 10

-----------------------------------------------------------------------------
(* Arithmetic of the extended rationals *)

Abs(x) == IF x < 0 THEN -x ELSE x

Sgn(x) == IF x < 0 THEN -1 ELSE IF x > 0 THEN 1 ELSE 0

RECURSIVE GCD(_, _)
GCD(a, b) == IF b = 0 THEN a ELSE GCD(b, a % b)

\* The number n/d in lowest terms; n/0 is +inf, -inf or NaN by the sign of n.
Rat(n, d) ==
    IF d = 0 THEN [n |-> Sgn(n), d |-> 0]
    ELSE LET g == GCD(Abs(n), Abs(d))
         IN  [n |-> Sgn(d) * (n \div g), d |-> Abs(d) \div g]

Int2R(k) == [n |-> k, d |-> 1]

Zero == Int2R(0)

NaN == [n |-> 0, d |-> 0]

IsNaN(x) == x.d = 0 /\ x.n = 0

IsFinite(x) == x.d > 0

Neg(x) == [n |-> -x.n, d |-> x.d]

Add(x, y) ==
    IF IsFinite(x) /\ IsFinite(y)
    THEN LET g == GCD(x.d, y.d)
         IN  Rat(x.n * (y.d \div g) + y.n * (x.d \div g), (x.d \div g) * y.d)
    ELSE IF IsNaN(x) \/ IsNaN(y) THEN NaN
    ELSE IF IsFinite(x) THEN y
    ELSE IF IsFinite(y) THEN x
    ELSE IF x.n = y.n THEN x ELSE NaN

Mul(x, y) ==
    IF IsFinite(x) /\ IsFinite(y)
    THEN LET g == GCD(Abs(x.n), y.d)
             h == GCD(Abs(y.n), x.d)
         IN  Rat((x.n \div g) * (y.n \div h), (x.d \div h) * (y.d \div g))
    ELSE IF IsNaN(x) \/ IsNaN(y) THEN NaN
    ELSE Rat(Sgn(x.n) * Sgn(y.n), 0)

\* 1/y; 1/0 is +inf, as numpy divides.
Inv(y) ==
    IF IsFinite(y) THEN Rat(y.d, y.n)
    ELSE IF IsNaN(y) THEN NaN ELSE Zero

Div(x, y) == Mul(x, Inv(y))

Lt(x, y) ==
    IF IsNaN(x) \/ IsNaN(y) THEN FALSE
    ELSE IF IsFinite(x) /\ IsFinite(y) THEN x.n * y.d < y.n * x.d
    ELSE IF ~IsFinite(x) /\ ~IsFinite(y) THEN x.n < y.n
    ELSE IF ~IsFinite(x) THEN x.n < 0
    ELSE y.n > 0

Gt(x, y) == Lt(y, x)

Le(x, y) == ~IsNaN(x) /\ ~IsNaN(y) /\ ~Lt(y, x)

\* Largest r in lo..hi with r*r <= k (given lo*lo <= k < (hi+1)*(hi+1)).
RECURSIVE ISqrtIn(_, _, _)
ISqrtIn(k, lo, hi) ==
    IF lo >= hi THEN lo
    ELSE LET mid == (lo + hi + 1) \div 2
         IN  IF mid <= k \div mid THEN ISqrtIn(k, mid, hi)
             ELSE ISqrtIn(k, lo, mid - 1)

\* 46340 is the largest root of a 32-bit integer.
ISqrt(k) == IF k <= 0 THEN 0 ELSE ISqrtIn(k, 1, IF k < 46340 THEN k ELSE 46340)

\* np.sqrt: NaN below zero, exact on squares, else rounded down to 1/SqrtScale.
Sqrt(x) ==
    IF IsNaN(x) THEN NaN
    ELSE IF ~IsFinite(x) THEN (IF x.n > 0 THEN x ELSE NaN)
    ELSE IF x.n < 0 THEN NaN
    ELSE LET rn == ISqrt(x.n)
             rd == ISqrt(x.d)
         IN  IF rn * rn = x.n /\ rd * rd = x.d THEN Rat(rn, rd)
             ELSE LET whole == x.n \div x.d
                      part  == ((x.n % x.d) * SqrtScale * SqrtScale) \div x.d
                  IN  Rat(ISqrt(whole * SqrtScale * SqrtScale + part), SqrtScale)

\* Bhaskara's form of the sine of f turns, 0 <= f <= 1/2.
SinHalf(f) ==
    LET u == Mul(f, Add(Int2R(1), Neg(Mul(Int2R(2), f))))
    IN  Div(Mul(Int2R(32), u), Add(Int2R(5), Neg(Mul(Int2R(8), u))))

\* np.sin(2 * np.pi * f) for f turns.
SinTurns(f) ==
    IF ~IsFinite(f) THEN NaN
    ELSE LET fr == Rat(f.n - (f.n \div f.d) * f.d, f.d)
         IN  IF Le(fr, Rat(1, 2)) THEN SinHalf(fr)
             ELSE Neg(SinHalf(Add(fr, Rat(-1, 2))))

-----------------------------------------------------------------------------
(* The numerical core, as the code computes it *)

\* np.linspace(0, tmax, num): num evenly spaced samples from 0 to tmax.
linspace(tmax, num) ==
    [i \in 1..num |->
        IF num = 1 THEN Zero ELSE Mul(Int2R(i - 1), Div(tmax, Int2R(num - 1)))]

\* np.zeros_like(t)
zeros_like(t) == [i \in DOMAIN t |-> Zero]

\* A fill with zeros where NaN is meant.
full_like_zero(t) == [i \in DOMAIN t |-> Zero]

\* np.full_like(t, np.nan)
full_like_nan(t) == [i \in DOMAIN t |-> NaN]

\* Zdot * t
linear(Zdot, t) == [i \in DOMAIN t |-> Mul(Zdot, t[i])]

\* A guard that forgets the period: enable_s alone.
sinusoid_on_any_period(enable, P) == enable

\* The guard of a sinusoidal term: enable_s and P > 0.
sinusoid_on(enable, P) == enable /\ Gt(P, Zero)

\* A * np.sin(2 * np.pi * t / P) if enable_s and P > 0 else np.zeros_like(t)
sinusoid(enable, A, P, t) ==
    IF sinusoid_on(enable, P)
    THEN [i \in DOMAIN t |-> Mul(A, SinTurns(Div(t[i], P)))]
    ELSE zeros_like(t)

\* The division t / P the evaluation of sinusoidal term k performs, if any.
sinusoid_divisions(k, enable, P) ==
    IF sinusoid_on(enable, P) THEN {[of |-> "period", term |-> k, by |-> P]} ELSE {}

\* eta = Z0 + linear + sinusoid1 + sinusoid2
sea_level(Z0, lin, sinusoid1, sinusoid2) ==
    [i \in DOMAIN lin |-> Add(Add(Add(Z0, lin[i]), sinusoid1[i]), sinusoid2[i])]

\* A mask that admits the first sample: (eta > 0) & (t >= 0).
valid_mask_from_zero(eta, t) ==
    [i \in DOMAIN t |-> Gt(eta[i], Zero) /\ Le(Zero, t[i])]

\* A mask that forgets the water depth: t > 0.
valid_mask_any_depth(eta, t) == [i \in DOMAIN t |-> Gt(t[i], Zero)]

\* valid_mask = (eta > 0) & (t > 0)
valid_mask(eta, t) == [i \in DOMAIN t |-> Gt(eta[i], Zero) /\ Gt(t[i], Zero)]

\* np.any(valid_mask)
any_mask(mask) == \E i \in DOMAIN mask : mask[i]

\* simplebox.py shoreline_location(Qs, eta, t)
shoreline_location(Qs, eta, t) ==
    LET mask == valid_mask(eta, t)
    IN  IF any_mask(mask)
        THEN [i \in DOMAIN t |->
                 IF mask[i] THEN Div(Mul(Qs, t[i]), eta[i]) ELSE Zero]
        ELSE zeros_like(t)

\* The divisions by eta[i] that shoreline_location performs.
shoreline_location_divisions(Qs, eta, t) ==
    LET mask == valid_mask(eta, t)
    IN  {[of |-> "eta", term |-> i, by |-> eta[i]] : i \in {j \in DOMAIN t : mask[j]}}

\* A gate that lets equal slopes through: not (S_t <= S_b <= S_f).
slope_gate_equal_allowed(S_t, S_f, S_b) ==
    \/ Le(S_t, Zero)
    \/ Le(S_b, Zero)
    \/ Le(S_f, Zero)
    \/ ~(Le(S_t, S_b) /\ Le(S_b, S_f))

\* The gate inside shoreline_location_advanced:
\* S_t <= 0 or S_b <= 0 or S_f <= 0 or not (S_t < S_b < S_f)
slope_gate(S_t, S_f, S_b) ==
    \/ Le(S_t, Zero)
    \/ Le(S_b, Zero)
    \/ Le(S_f, Zero)
    \/ ~(Lt(S_t, S_b) /\ Lt(S_b, S_f))

\* A flag that lets equal neighbouring slopes pass: S_t <= S_b <= S_f.
invalid_flag_equal_allowed(S_t, S_f, S_b) ==
    \/ Le(S_t, Zero)
    \/ Le(S_b, Zero)
    \/ Le(S_f, Zero)
    \/ ~(Le(S_t, S_b) /\ Le(S_b, S_f))

\* The caller's flag invalid1 / invalid2, computed after the call.
invalid_flag(S_t, S_f, S_b) ==
    \/ Le(S_t, Zero)
    \/ Le(S_b, Zero)
    \/ Le(S_f, Zero)
    \/ ~(Lt(S_t, S_b) /\ Lt(S_b, S_f))

alpha_of(S_t, S_b) == Div(S_t, Add(S_b, Neg(S_t)))

\* beta with the difference reversed: S_f / (S_b - S_f).
beta_of_reversed(S_f, S_b) == Div(S_f, Add(S_b, Neg(S_f)))

beta_of(S_f, S_b) == Div(S_f, Add(S_f, Neg(S_b)))

\* denom with the difference of alpha and beta: S_b * (alpha - beta).
denom_of_difference(S_t, S_f, S_b) ==
    Mul(S_b, Add(alpha_of(S_t, S_b), Neg(beta_of(S_f, S_b))))

denom_of(S_t, S_f, S_b) == Mul(S_b, Add(alpha_of(S_t, S_b), beta_of(S_f, S_b)))

\* sqrt_arg = (2 * q_s * t) / denom; sqrt_arg = np.where(sqrt_arg < 0, 0, sqrt_arg)
sqrt_arg_of(q_s, ti, denom) ==
    LET raw == Div(Mul(Mul(Int2R(2), q_s), ti), denom)
    IN  IF Lt(raw, Zero) THEN Zero ELSE raw

\* advancedbox.py shoreline_location_advanced(q_s, eta, t, S_t, S_f, S_b)
shoreline_location_advanced(q_s, eta, t, S_t, S_f, S_b) ==
    LET mask == valid_mask(eta, t)
    IN  IF slope_gate(S_t, S_f, S_b) THEN full_like_nan(t)
        ELSE IF any_mask(mask)
        THEN LET denom == denom_of(S_t, S_f, S_b)
             IN  [i \in DOMAIN t |->
                     IF mask[i]
                     THEN Add(Div(Neg(eta[i]), S_b), Sqrt(sqrt_arg_of(q_s, t[i], denom)))
                     ELSE Zero]
        ELSE zeros_like(t)

\* The divisions shoreline_location_advanced performs: by S_b - S_t (1),
\* S_f - S_b (2), denom (3) and S_b (4).
shoreline_location_advanced_divisions(q_s, eta, t, S_t, S_f, S_b) ==
    IF slope_gate(S_t, S_f, S_b) \/ ~any_mask(valid_mask(eta, t)) THEN {}
    ELSE {[of |-> "slope", term |-> 1, by |-> Add(S_b, Neg(S_t))],
          [of |-> "slope", term |-> 2, by |-> Add(S_f, Neg(S_b))],
          [of |-> "slope", term |-> 3, by |-> denom_of(S_t, S_f, S_b)],
          [of |-> "slope", term |-> 4, by |-> S_b]}

-----------------------------------------------------------------------------
(* Range unification, as the code computes it *)

\* np.any(a): some element is nonzero; NaN and the infinities are nonzero.
np_any(a) == \E i \in DOMAIN a : a[i] # Zero

\* The elements of a that are not NaN.
not_nan(a) == {a[i] : i \in {j \in DOMAIN a : ~IsNaN(a[j])}}

\* np.nanmax(a): the maximum ignoring NaN; NaN when every element is NaN.
nanmax(a) ==
    IF not_nan(a) = {} THEN NaN
    ELSE CHOOSE m \in not_nan(a) : \A x \in not_nan(a) : Le(x, m)

\* np.nanmin(a): the minimum ignoring NaN; NaN when every element is NaN.
nanmin(a) ==
    IF not_nan(a) = {} THEN NaN
    ELSE CHOOSE m \in not_nan(a) : \A x \in not_nan(a) : Le(m, x)

\* Python's max(a, b): b if b > a, else a.
py_max(a, b) == IF Gt(b, a) THEN b ELSE a

\* Python's min(a, b): b if b < a, else a.
py_min(a, b) == IF Lt(b, a) THEN b ELSE a

\* The factor 1.1 of the padded bounds.
pad_factor == Rat(11, 10)

\* np.nanmax(a) if np.any(a) else 0
max_or_zero(a) == IF np_any(a) THEN nanmax(a) ELSE Zero

\* np.nanmin(a) if np.any(a) else 0
min_or_zero(a) == IF np_any(a) THEN nanmin(a) ELSE Zero

y_max_eta(eta1, eta2) == Mul(py_max(max_or_zero(eta1), max_or_zero(eta2)), pad_factor)

y_min_eta(eta1, eta2) == Mul(py_min(min_or_zero(eta1), min_or_zero(eta2)), pad_factor)

y_max_s(s1, s2) == Mul(py_max(max_or_zero(s1), max_or_zero(s2)), pad_factor)

\* A lower bound padded like the sea-level one before it is forced to 0.
y_min_s_padded(s1, s2) ==
    LET m == Mul(py_min(min_or_zero(s1), min_or_zero(s2)), pad_factor)
    IN  IF Gt(m, Zero) THEN Zero ELSE m

\* y_min_s = min(...); if y_min_s > 0: y_min_s = 0
y_min_s(s1, s2) ==
    LET m == py_min(min_or_zero(s1), min_or_zero(s2))
    IN  IF Gt(m, Zero) THEN Zero ELSE m

-----------------------------------------------------------------------------
(* The calculation of one scenario: the script variables t, linear,         *)
(* sinusoid1, sinusoid2, eta and the shoreline (X or s), with the divisions  *)
(* performed on the way.                                                     *)

\* simplebox.py: t1 .. X1 (and t2 .. X2)
calculation_simple(Qs, tmax, sea) ==
    LET t   == linspace(tmax, NumSamples)
        lin == linear(sea.Zdot, t)
        sinusoid1 == sinusoid(sea.enable_s1, sea.A1, sea.P1, t)
        sinusoid2 == sinusoid(sea.enable_s2, sea.A2, sea.P2, t)
        eta == sea_level(sea.Z0, lin, sinusoid1, sinusoid2)
    IN  [t |-> t, linear |-> lin,
         sinusoid1 |-> sinusoid1, sinusoid2 |-> sinusoid2, eta |-> eta,
         shoreline |-> shoreline_location(Qs, eta, t),
         divisions |-> sinusoid_divisions(1, sea.enable_s1, sea.P1)
                       \cup sinusoid_divisions(2, sea.enable_s2, sea.P2)
                       \cup shoreline_location_divisions(Qs, eta, t)]

\* advancedbox.py: t1 .. s1 (and t2 .. s2)
calculation_advanced(q_s, tmax, sea, S_t, S_f, S_b) ==
    LET t   == linspace(tmax, NumSamples)
        lin == linear(sea.Zdot, t)
        sinusoid1 == sinusoid(sea.enable_s1, sea.A1, sea.P1, t)
        sinusoid2 == sinusoid(sea.enable_s2, sea.A2, sea.P2, t)
        eta == sea_level(sea.Z0, lin, sinusoid1, sinusoid2)
    IN  [t |-> t, linear |-> lin,
         sinusoid1 |-> sinusoid1, sinusoid2 |-> sinusoid2, eta |-> eta,
         shoreline |-> shoreline_location_advanced(q_s, eta, t, S_t, S_f, S_b),
         divisions |-> sinusoid_divisions(1, sea.enable_s1, sea.P1)
                       \cup sinusoid_divisions(2, sea.enable_s2, sea.P2)
                       \cup shoreline_location_advanced_divisions(
                                q_s, eta, t, S_t, S_f, S_b)]

\* The divisions of one Python float by another, alpha = S_t / (S_b - S_t)
\* and beta = S_f / (S_f - S_b), raise ZeroDivisionError on a zero divisor;
\* the divisions of numpy arrays do not raise.
zero_division(divisions) ==
    \E d \in divisions : d.of = "slope" /\ d.term \in {1, 2} /\ d.by = Zero

-----------------------------------------------------------------------------
(* State *)

VARIABLES
    pc,            \* the page: the step of the script run, "idle" after a
                   \* completed run, "raised" after one an exception ended;
                   \* the core driven directly: "call", then "return"
    model_choice,  \* app.py: the model the sidebar selects
    session,       \* the widget values of scenario 1 and 2
    plot_on_single_graph,
    align_axes,
    scen,          \* the calculation of scenario 1 and 2 in this run
    invalid,       \* the scenarios whose flag invalid1 / invalid2 is true
    errors,        \* the scenarios an st.error names in this run
    charts,        \* the charts st.plotly_chart has rendered in this run
    call,          \* the core driven directly: the operation and its arguments
    ret            \* the core driven directly: its result

page_vars ==
    <<model_choice, session, plot_on_single_graph, align_axes, scen, invalid,
      errors, charts>>

vars == <<pc, page_vars, call, ret>>

NoResult == [op |-> "none"]

-----------------------------------------------------------------------------
(* The page: app.py runs simplebox.py or advancedbox.py from top to bottom, *)
(* and again after every change of a widget.                                 *)

Simple == "Simple Box Model"

Advanced == "Advanced Model with Slopes"

\* the default values of the widgets of scenario_controls
widget_defaults ==
    [q_s |-> Int2R(250), tmax |-> Int2R(100),
     S_t |-> Rat(1, 100), S_f |-> Rat(1, 10), S_b |-> Rat(1, 20),
     Z0 |-> Int2R(1), Zdot |-> Rat(3, 10),
     enable_s1 |-> FALSE, A1 |-> Int2R(1), P1 |-> Int2R(10),
     enable_s2 |-> FALSE, A2 |-> Int2R(5), P2 |-> Int2R(100)]

\* The values the model lets the user give a widget; each lies in the
\* widget's range.  The slope widgets exist on the advanced page only.
widget_values(name) ==
    CASE name = "q_s"  -> {Int2R(250), Int2R(10)}
      [] name = "tmax" -> {Int2R(10), Int2R(100)}
      [] name = "Zdot" -> {Rat(3, 10), Int2R(-1)}
      [] name = "S_t"  -> {Rat(1, 100), Rat(1, 20)}
      [] name = "S_f"  -> {Rat(1, 10), Rat(1, 50)}

widget_names == {"q_s", "tmax", "Zdot", "S_t", "S_f"}

slope_widgets == {"S_t", "S_f", "S_b"}

\* scenario_controls: the sea-level parameters it returns; A and P of a term
\* are 0.0 and 0 unless its checkbox is checked
controls_sea(w) ==
    [Z0 |-> w.Z0, Zdot |-> w.Zdot,
     enable_s1 |-> w.enable_s1,
     A1 |-> IF w.enable_s1 THEN w.A1 ELSE Zero,
     P1 |-> IF w.enable_s1 THEN w.P1 ELSE Zero,
     enable_s2 |-> w.enable_s2,
     A2 |-> IF w.enable_s2 THEN w.A2 ELSE Zero,
     P2 |-> IF w.enable_s2 THEN w.P2 ELSE Zero]

\* No run is in progress: the last one has completed, or has stopped at an
\* exception, which the page displays.
between_runs == pc \in {"idle", "raised"}

\* What a run starts from: nothing calculated, nothing shown.
fresh_run ==
    /\ pc' = "calc1"
    /\ scen' = [k \in {1, 2} |-> NoResult]
    /\ invalid' = {}
    /\ errors' = {}
    /\ charts' = {}

Init ==
    /\ pc = "calc1"
    /\ model_choice = Simple
    /\ session = [k \in {1, 2} |-> widget_defaults]
    /\ plot_on_single_graph = FALSE
    /\ align_axes = TRUE
    /\ scen = [k \in {1, 2} |-> NoResult]
    /\ invalid = {}
    /\ errors = {}
    /\ charts = {}
    /\ call = NoResult
    /\ ret = NoResult

\* "Calculation" of scenario k
Calculate(k) ==
    /\ pc = IF k = 1 THEN "calc1" ELSE "calc2"
    /\ LET w == session[k]
           result == IF model_choice = Simple
                     THEN calculation_simple(w.q_s, w.tmax, controls_sea(w))
                     ELSE calculation_advanced(w.q_s, w.tmax, controls_sea(w),
                                               w.S_t, w.S_f, w.S_b)
       IN  /\ scen' = [scen EXCEPT ![k] = result]
           /\ pc' = IF zero_division(result.divisions) THEN "raised"
                    ELSE IF k = 1 THEN "calc2"
                    ELSE IF model_choice = Simple THEN "plot" ELSE "warn"
    /\ UNCHANGED <<model_choice, session, plot_on_single_graph, align_axes,
                   invalid, errors, charts, call, ret>>

\* advancedbox.py: invalid1, invalid2 and the st.error of each invalid scenario
Warn ==
    /\ pc = "warn"
    /\ LET flagged == {k \in {1, 2} :
                          invalid_flag(session[k].S_t, session[k].S_f, session[k].S_b)}
       IN  /\ invalid' = flagged
           /\ errors' = flagged
    /\ pc' = "plot"
    /\ UNCHANGED <<model_choice, session, plot_on_single_graph, align_axes,
                   scen, charts, call, ret>>

\* x_max_t = max(tmax1, tmax2)
x_max_t(tmax1, tmax2) == py_max(tmax1, tmax2)

\* The three figures with the unified ranges, of the scenarios in who.
unified_figures(who) ==
    LET x_max == x_max_t(session[1].tmax, session[2].tmax)
        lo_eta == y_min_eta(scen[1].eta, scen[2].eta)
        hi_eta == y_max_eta(scen[1].eta, scen[2].eta)
        lo_s == y_min_s(scen[1].shoreline, scen[2].shoreline)
        hi_s == y_max_s(scen[1].shoreline, scen[2].shoreline)
    IN  { [fig |-> 1, scenarios |-> who, x_range |-> <<Zero, x_max>>,
           y_range |-> <<lo_eta, hi_eta>>],
          [fig |-> 2, scenarios |-> who, x_range |-> <<Zero, x_max>>,
           y_range |-> <<lo_s, hi_s>>],
          [fig |-> 3, scenarios |-> who, x_range |-> <<lo_s, hi_s>>,
           y_range |-> <<lo_eta, hi_eta>>] }

\* create_individual_figures: the three figures of one scenario, ranges left
\* to the plotting library
individual_figures(k) ==
    {[fig |-> n, scenarios |-> {k}, x_range |-> <<>>, y_range |-> <<>>] : n \in 1..3}

\* A gate that holds the charts back only when both scenarios are invalid.
charts_allowed_either_valid == model_choice = Simple \/ invalid # {1, 2}

\* Whether the page's gate lets the charts through: always on the simple
\* page, "not (invalid1 or invalid2)" on the advanced page.
charts_allowed == model_choice = Simple \/ invalid = {}

\* "Combined Comparison Graphs"
PlotSingle ==
    /\ pc = "plot"
    /\ plot_on_single_graph
    /\ charts_allowed
    /\ charts' = unified_figures({1, 2})
    /\ pc' = "idle"
    /\ UNCHANGED <<model_choice, session, plot_on_single_graph, align_axes,
                   scen, invalid, errors, call, ret>>

\* "Separated Graphs"
PlotSeparate ==
    /\ pc = "plot"
    /\ ~plot_on_single_graph
    /\ charts_allowed
    /\ charts' = IF align_axes
                 THEN unified_figures({1}) \cup unified_figures({2})
                 ELSE individual_figures(1) \cup individual_figures(2)
    /\ pc' = "idle"
    /\ UNCHANGED <<model_choice, session, plot_on_single_graph, align_axes,
                   scen, invalid, errors, call, ret>>

\* advancedbox.py with an invalid scenario: neither branch is taken
PlotNothing ==
    /\ pc = "plot"
    /\ ~charts_allowed
    /\ pc' = "idle"
    /\ UNCHANGED <<page_vars, call, ret>>

\* The user gives a widget of scenario k another value; the script runs again.
ChangeWidget(k, name, v) ==
    /\ between_runs
    /\ name \in slope_widgets => model_choice = Advanced
    /\ session[k][name] # v
    /\ session' = [session EXCEPT ![k][name] = v]
    /\ fresh_run
    /\ UNCHANGED <<model_choice, plot_on_single_graph, align_axes, call, ret>>

\* The user checks or unchecks "Enable Sinusoid 1" of scenario k.
ToggleSinusoid1(k) ==
    /\ between_runs
    /\ session' = [session EXCEPT ![k].enable_s1 = ~@]
    /\ fresh_run
    /\ UNCHANGED <<model_choice, plot_on_single_graph, align_axes, call, ret>>

\* The user checks or unchecks "Plot on a single graph".
TogglePlotOnSingleGraph ==
    /\ between_runs
    /\ plot_on_single_graph' = ~plot_on_single_graph
    /\ fresh_run
    /\ UNCHANGED <<model_choice, session, align_axes, call, ret>>

\* The user checks or unchecks "Unify X/Y axis ranges", which is disabled
\* while "Plot on a single graph" is checked.
ToggleAlignAxes ==
    /\ between_runs
    /\ ~plot_on_single_graph
    /\ align_axes' = ~align_axes
    /\ fresh_run
    /\ UNCHANGED <<model_choice, session, plot_on_single_graph, call, ret>>

\* app.py: the user selects the other model in the sidebar.
SelectModel ==
    /\ between_runs
    /\ model_choice' = IF model_choice = Simple THEN Advanced ELSE Simple
    /\ fresh_run
    /\ UNCHANGED <<session, plot_on_single_graph, align_axes, call, ret>>

Next ==
    \/ \E k \in {1, 2} : Calculate(k)
    \/ Warn
    \/ PlotSingle
    \/ PlotSeparate
    \/ PlotNothing
    \/ \E k \in {1, 2}, name \in widget_names :
          \E v \in widget_values(name) : ChangeWidget(k, name, v)
    \/ \E k \in {1, 2} : ToggleSinusoid1(k)
    \/ TogglePlotOnSingleGraph
    \/ ToggleAlignAxes
    \/ SelectModel

Spec == Init /\ [][Next]_vars

-----------------------------------------------------------------------------
(* The core driven directly: one scenario of either model, or one range     *)
(* unification, on arguments that need not come from the page's widgets.    *)

Qs_args == {Int2R(250), Int2R(10), Zero, Int2R(-10)}

tmax_args == {Int2R(100), Int2R(10), Int2R(-10)}

Z0_args == {Int2R(1), Rat(5, 2)}

Zdot_args == {Rat(3, 10), Rat(-1, 10), Int2R(-1)}

\* (enable, amplitude, period) of one sinusoidal term
sinusoid_args ==
    { <<FALSE, Zero, Zero>>, <<FALSE, Int2R(2), Int2R(40)>>, <<FALSE, Int2R(2), Zero>>,
      <<TRUE, Int2R(2), Int2R(40)>>, <<TRUE, Int2R(2), Zero>>, <<TRUE, Int2R(2), Int2R(-5)>> }

sea_of(Z0, Zdot, a, b) ==
    [Z0 |-> Z0, Zdot |-> Zdot,
     enable_s1 |-> a[1], A1 |-> a[2], P1 |-> a[3],
     enable_s2 |-> b[1], A2 |-> b[2], P2 |-> b[3]]

sea_args == {sea_of(Z0, Zdot, a, b) :
                Z0 \in Z0_args, Zdot \in Zdot_args, a \in sinusoid_args, b \in sinusoid_args}

\* the advanced scenarios vary the slopes and keep the second term off
sea_args_advanced ==
    {sea_of(Int2R(1), Zdot, a, <<FALSE, Zero, Zero>>) :
        Zdot \in {Rat(3, 10), Rat(-1, 10)},
        a \in {<<FALSE, Zero, Zero>>, <<TRUE, Int2R(2), Int2R(40)>>, <<TRUE, Int2R(2), Zero>>}}

slope_args == {Rat(-1, 100), Zero, Rat(1, 100), Rat(1, 50), Rat(1, 20), Rat(1, 10)}

series_values == {NaN, Int2R(-3), Zero, Int2R(2)}

series_args == [1..NumSamples -> series_values]

\* No page is running.
page_at_rest ==
    /\ model_choice = Simple
    /\ session = [k \in {1, 2} |-> widget_defaults]
    /\ plot_on_single_graph = FALSE
    /\ align_axes = TRUE
    /\ scen = [k \in {1, 2} |-> NoResult]
    /\ invalid = {}
    /\ errors = {}
    /\ charts = {}

InitCore ==
    /\ pc = "call"
    /\ page_at_rest
    /\ ret = NoResult
    /\ \/ \E Qs \in Qs_args, tmax \in tmax_args, sea \in sea_args :
             call = [op |-> "simple", Qs |-> Qs, tmax |-> tmax, sea |-> sea]
       \/ \E q_s \in Qs_args, tmax \in tmax_args, sea \in sea_args_advanced,
             S_t \in slope_args, S_f \in slope_args, S_b \in slope_args :
             call = [op |-> "advanced", q_s |-> q_s, tmax |-> tmax, sea |-> sea,
                     S_t |-> S_t, S_f |-> S_f, S_b |-> S_b]
       \/ \E A \in series_args, B \in series_args :
             call = [op |-> "unify", A |-> A, B |-> B]

\* simplebox.py, "Calculation" of one scenario; the simple page has no
\* invalid flag
ScenarioSimple ==
    /\ pc = "call"
    /\ call.op = "simple"
    /\ ret' = [op |-> "simple", invalid |-> FALSE]
                 @@ calculation_simple(call.Qs, call.tmax, call.sea)
    /\ pc' = "return"
    /\ UNCHANGED <<page_vars, call>>

\* advancedbox.py, "Calculation" of one scenario and its invalid flag
ScenarioAdvanced ==
    /\ pc = "call"
    /\ call.op = "advanced"
    /\ ret' = [op |-> "advanced",
               invalid |-> invalid_flag(call.S_t, call.S_f, call.S_b)]
                 @@ calculation_advanced(call.q_s, call.tmax, call.sea,
                                         call.S_t, call.S_f, call.S_b)
    /\ pc' = "return"
    /\ UNCHANGED <<page_vars, call>>

\* "Unify axis ranges": the bounds of the sea-level pair and of the shoreline
\* pair, each computed on the series A and B
UnifyRanges ==
    /\ pc = "call"
    /\ call.op = "unify"
    /\ ret' = [op |-> "unify",
               y_min_eta |-> y_min_eta(call.A, call.B),
               y_max_eta |-> y_max_eta(call.A, call.B),
               y_min_s |-> y_min_s(call.A, call.B),
               y_max_s |-> y_max_s(call.A, call.B)]
    /\ pc' = "return"
    /\ UNCHANGED <<page_vars, call>>

NextCore == ScenarioSimple \/ ScenarioAdvanced \/ UnifyRanges

SpecCore == InitCore /\ [][NextCore]_vars

-----------------------------------------------------------------------------
(* What the claims are stated in: order and products of finite numbers,     *)
(* written on numerators and denominators.                                   *)

Positive(x) == x.d > 0 /\ x.n > 0

Below(x, y) == x.d > 0 /\ y.d > 0 /\ x.n * y.d < y.n * x.d

\* 0 < S_t < S_b < S_f for the slopes of the call
SlopesOrdered ==
    /\ Positive(call.S_t) /\ Positive(call.S_b) /\ Positive(call.S_f)
    /\ Below(call.S_t, call.S_b)
    /\ Below(call.S_b, call.S_f)

AllNaN(a) == \A i \in DOMAIN a : IsNaN(a[i])

ReturnedScenario == pc = "return" /\ call.op \in {"simple", "advanced"}

ReturnedAdvanced == pc = "return" /\ call.op = "advanced"

ReturnedSimple == pc = "return" /\ call.op = "simple"

ReturnedUnify == pc = "return" /\ call.op = "unify"

SlopesAre(S_t, S_b, S_f) == call.S_t = S_t /\ call.S_b = S_b /\ call.S_f = S_f

\* C1: the slope validation (the gate inside shoreline_location_advanced and
\* the caller's invalid flag) accepts exactly the triples with
\* 0 < S_t < S_b < S_f: with such slopes the flag is false and the function
\* does not return the NaN series; with any other triple (a value <= 0,
\* S_t >= S_b or S_b >= S_f) the flag is true and the NaN series is returned.
\* (0.01, 0.05, 0.1) is accepted; (0.05, 0.01, 0.1), (0.01, 0.05, 0.02) and
\* (-0.01, 0.05, 0.1) are rejected.
C1_SlopeValidation ==
    ReturnedAdvanced =>
        /\ SlopesOrdered => ~ret.invalid /\ ~AllNaN(ret.shoreline)
        /\ ~SlopesOrdered => ret.invalid /\ AllNaN(ret.shoreline)
        /\ SlopesAre(Rat(1, 100), Rat(1, 20), Rat(1, 10)) => ~ret.invalid
        /\ SlopesAre(Rat(1, 20), Rat(1, 100), Rat(1, 10)) => ret.invalid
        /\ SlopesAre(Rat(1, 100), Rat(1, 20), Rat(1, 50)) => ret.invalid
        /\ SlopesAre(Rat(-1, 100), Rat(1, 20), Rat(1, 10)) => ret.invalid

\* a triple with S_t = S_b has been rejected
C1_Witness ==
    /\ ReturnedAdvanced
    /\ SlopesAre(Rat(1, 20), Rat(1, 20), Rat(1, 10))
    /\ ret.invalid
    /\ AllNaN(ret.shoreline)

\* C2: when the slopes fail validation the advanced model returns a series as
\* long as the time axis whose every element is NaN, no division having been
\* performed on its behalf, and the caller's flag says invalid; and the flag
\* says invalid only when the series is all NaN.
C2_InvalidIsAllNaN ==
    ReturnedAdvanced =>
        /\ ~SlopesOrdered =>
              /\ DOMAIN ret.shoreline = DOMAIN ret.t
              /\ \A i \in DOMAIN ret.shoreline : IsNaN(ret.shoreline[i])
              /\ \A v \in ret.divisions : v.of # "slope"
              /\ ret.invalid
        /\ ret.invalid <=> AllNaN(ret.shoreline)

\* invalid slopes, on a time axis with samples where eta > 0 and t > 0
C2_Witness ==
    /\ ReturnedAdvanced
    /\ ~SlopesOrdered
    /\ ret.invalid
    /\ \E i \in DOMAIN ret.t : Positive(ret.t[i]) /\ Positive(ret.eta[i])
    /\ AllNaN(ret.shoreline)

\* C3: in every valid scenario (simple: always; advanced: slopes in order)
\* the first sample is at time 0, its shoreline is 0 and its sea level is the
\* baseline Z0, whatever supply, rate and sinusoids; the mask leaves the first
\* sample out, so the 0 is the initial fill and not a value of the formula.
C3_FirstSample ==
    (ReturnedScenario /\ ~ret.invalid) =>
        /\ ret.t[1] = Zero
        /\ ret.shoreline[1] = Zero
        /\ ret.eta[1] = call.sea.Z0
        /\ \A v \in ret.divisions : v.of = "eta" => v.term # 1

\* an advanced scenario with valid slopes and an enabled sinusoid
C3_Witness ==
    /\ ReturnedAdvanced
    /\ SlopesOrdered
    /\ call.sea.enable_s1 /\ Positive(call.sea.P1)
    /\ ret.shoreline[1] = Zero
    /\ \E i \in DOMAIN ret.t : ret.shoreline[i] # Zero

\* C4: simple model: where eta[i] > 0 and t[i] > 0, X[i] * eta[i] = Qs * t[i];
\* elsewhere X[i] = 0; eta is never divided by where it is <= 0; X is as long
\* as t and every sample is finite.  Qs = 250, Z0 = 1, Zdot = 0.3, no
\* sinusoids: X = 25000/31 at t = 100.
C4_SimpleModel ==
    ReturnedSimple =>
        /\ DOMAIN ret.shoreline = DOMAIN ret.t
        /\ \A i \in DOMAIN ret.t :
              /\ IsFinite(ret.shoreline[i])
              /\ (Positive(ret.eta[i]) /\ Positive(ret.t[i]))
                    => Mul(ret.shoreline[i], ret.eta[i]) = Mul(call.Qs, ret.t[i])
              /\ ~(Positive(ret.eta[i]) /\ Positive(ret.t[i]))
                    => ret.shoreline[i] = Zero
        /\ \A v \in ret.divisions : v.of = "eta" => Positive(v.by)
        /\ ( /\ call.Qs = Int2R(250) /\ call.sea.Z0 = Int2R(1)
             /\ call.sea.Zdot = Rat(3, 10)
             /\ ~call.sea.enable_s1 /\ ~call.sea.enable_s2 )
           => \A i \in DOMAIN ret.t :
                 ret.t[i] = Int2R(100) => ret.shoreline[i] = Rat(25000, 31)

\* a run with a sample computed by the formula and a later sample with
\* eta <= 0 at t > 0
C4_Witness ==
    /\ ReturnedSimple
    /\ \E i, j \in DOMAIN ret.t :
          /\ Positive(ret.t[i]) /\ Positive(ret.eta[i]) /\ ret.shoreline[i] # Zero
          /\ Positive(ret.t[j]) /\ ~Positive(ret.eta[j]) /\ ret.shoreline[j] = Zero

\* C5: advanced model with slopes in order: with alpha = S_t/(S_b - S_t),
\* beta = S_f/(S_f - S_b), denom = S_b*(alpha + beta), where eta[i] > 0 and
\* t[i] > 0 the sample is -eta[i]/S_b + sqrt(max(2*q_s*t[i]/denom, 0)), and
\* elsewhere it is 0; no sample is NaN.  q_s = 250, slopes (0.01, 0.05, 0.1):
\* alpha = 1/4, beta = 2, denom = 9/80, and at eta = 31, t = 100 the sample
\* is -620 + sqrt(4000000/9) = -620 + 2000/3.
C5_AdvancedModel ==
    (ReturnedAdvanced /\ SlopesOrdered) =>
        LET alpha == Div(call.S_t, Add(call.S_b, Neg(call.S_t)))
            beta  == Div(call.S_f, Add(call.S_f, Neg(call.S_b)))
            denom == Mul(call.S_b, Add(alpha, beta))
            arg(i) == Div(Mul(Mul(Int2R(2), call.q_s), ret.t[i]), denom)
            clamped(i) == IF arg(i).n < 0 THEN Zero ELSE arg(i)
        IN  /\ \A i \in DOMAIN ret.t :
                  /\ ~IsNaN(ret.shoreline[i])
                  /\ (Positive(ret.eta[i]) /\ Positive(ret.t[i]))
                        => ret.shoreline[i]
                              = Add(Neg(Div(ret.eta[i], call.S_b)), Sqrt(clamped(i)))
                  /\ ~(Positive(ret.eta[i]) /\ Positive(ret.t[i]))
                        => ret.shoreline[i] = Zero
            /\ ( /\ call.q_s = Int2R(250)
                 /\ SlopesAre(Rat(1, 100), Rat(1, 20), Rat(1, 10)) )
               => /\ alpha_of(call.S_t, call.S_b) = Rat(1, 4)
                  /\ beta_of(call.S_f, call.S_b) = Int2R(2)
                  /\ denom_of(call.S_t, call.S_f, call.S_b) = Rat(9, 80)
                  /\ \A i \in DOMAIN ret.t :
                        (ret.t[i] = Int2R(100) /\ ret.eta[i] = Int2R(31))
                           => /\ ret.shoreline[i] = Add(Int2R(-620), Rat(2000, 3))
                              /\ Sqrt(arg(i)) = Rat(2000, 3)

\* the worked example: q_s = 250, slopes (0.01, 0.05, 0.1), eta = 31 at t = 100
C5_Witness ==
    /\ ReturnedAdvanced
    /\ call.q_s = Int2R(250)
    /\ SlopesAre(Rat(1, 100), Rat(1, 20), Rat(1, 10))
    /\ \E i \in DOMAIN ret.t :
          /\ ret.t[i] = Int2R(100) /\ ret.eta[i] = Int2R(31)
          /\ ret.shoreline[i] = Rat(140, 3)

\* C6: the sea-level synthesis always yields a finite series as long as the
\* time axis; a sinusoidal term that is not enabled (whatever its amplitude)
\* or whose period is <= 0 is 0 at every sample and its division t/P is not
\* performed; with both terms disabled eta[i] = Z0 + Zdot*t[i] at every sample.
C6_SeaLevelNoErrorPath ==
    ReturnedScenario =>
        /\ DOMAIN ret.eta = DOMAIN ret.t
        /\ \A i \in DOMAIN ret.eta : IsFinite(ret.eta[i])
        /\ (~call.sea.enable_s1 \/ ~Positive(call.sea.P1))
              => /\ \A i \in DOMAIN ret.t : ret.sinusoid1[i] = Zero
                 /\ \A v \in ret.divisions : ~(v.of = "period" /\ v.term = 1)
        /\ (~call.sea.enable_s2 \/ ~Positive(call.sea.P2))
              => /\ \A i \in DOMAIN ret.t : ret.sinusoid2[i] = Zero
                 /\ \A v \in ret.divisions : ~(v.of = "period" /\ v.term = 2)
        /\ (~call.sea.enable_s1 /\ ~call.sea.enable_s2)
              => \A i \in DOMAIN ret.t :
                    ret.eta[i] = Add(call.sea.Z0, Mul(call.sea.Zdot, ret.t[i]))

\* term 1 enabled with period 0 and amplitude 2, term 2 enabled with a
\* positive period and not 0 everywhere
C6_Witness ==
    /\ ReturnedScenario
    /\ call.sea.enable_s1 /\ call.sea.P1 = Zero /\ call.sea.A1 = Int2R(2)
    /\ call.sea.enable_s2 /\ Positive(call.sea.P2)
    /\ \A i \in DOMAIN ret.t : ret.sinusoid1[i] = Zero
    /\ \E i \in DOMAIN ret.t : ret.sinusoid2[i] # Zero

-----------------------------------------------------------------------------
(* Range unification: the claims *)

AtMost(x, y) == x.d > 0 /\ y.d > 0 /\ x.n * y.d <= y.n * x.d

\* the samples of a that are numbers
Numbers(a) == {a[i] : i \in {j \in DOMAIN a : a[j].d > 0}}

GreatestOf(S) == CHOOSE m \in S : \A x \in S : AtMost(x, m)

LeastOf(S) == CHOOSE m \in S : \A x \in S : AtMost(m, x)

Padded(x) == Mul(x, Rat(11, 10))

BothHaveNumbers == Numbers(call.A) # {} /\ Numbers(call.B) # {}

\* C7 as claimed: all four bounds follow one rule, max * 1.1 and min * 1.1,
\* the shoreline lower bound being forced to 0 when positive, so that a
\* negative shoreline minimum m gives the lower bound 1.1 * m.
C7_AsClaimed ==
    (ReturnedUnify /\ BothHaveNumbers) =>
        LET hi == GreatestOf(Numbers(call.A) \cup Numbers(call.B))
            lo == LeastOf(Numbers(call.A) \cup Numbers(call.B))
        IN  /\ ret.y_max_eta = Padded(hi)
            /\ ret.y_min_eta = Padded(lo)
            /\ ret.y_max_s = Padded(hi)
            /\ ret.y_min_s = IF Positive(lo) THEN Zero ELSE Padded(lo)

\* C7 (amended): for two series that each have a sample that is a number, the
\* sea-level bounds are max * 1.1 and min * 1.1 and the shoreline upper bound
\* is max * 1.1, max and min being taken over the numbers of both series; the
\* shoreline lower bound is that min without the factor, forced to 0 when it
\* is positive, so that a negative shoreline minimum m gives the lower bound m.
C7_RangeRule ==
    (ReturnedUnify /\ BothHaveNumbers) =>
        LET hi == GreatestOf(Numbers(call.A) \cup Numbers(call.B))
            lo == LeastOf(Numbers(call.A) \cup Numbers(call.B))
        IN  /\ ret.y_max_eta = Padded(hi)
            /\ ret.y_min_eta = Padded(lo)
            /\ ret.y_max_s = Padded(hi)
            /\ ret.y_min_s = IF Positive(lo) THEN Zero ELSE lo
            /\ lo.n < 0 => ret.y_min_s = lo /\ ret.y_min_s # Padded(lo)

\* a shoreline pair with minimum -3: the lower bound is -3, the sea-level one
\* of the same pair -3.3
C7_Witness ==
    /\ ReturnedUnify
    /\ BothHaveNumbers
    /\ ret.y_min_s = Int2R(-3)
    /\ ret.y_min_eta = Rat(-33, 10)

ShorelineMinNotPositiveOfNumbers ==
    (ReturnedUnify /\ BothHaveNumbers) => ret.y_min_s.d > 0 /\ ret.y_min_s.n <= 0

CommutativeOfNumbers ==
    (ReturnedUnify /\ BothHaveNumbers) =>
        /\ ret.y_min_eta = y_min_eta(call.B, call.A)
        /\ ret.y_max_eta = y_max_eta(call.B, call.A)
        /\ ret.y_min_s = y_min_s(call.B, call.A)
        /\ ret.y_max_s = y_max_s(call.B, call.A)

-----------------------------------------------------------------------------
(* The advanced page *)

\* The slopes of scenario k, as the widgets hold them, fail 0 < S_t < S_b < S_f.
SlopesFail(k) ==
    LET w == session[k]
    IN  ~ /\ Positive(w.S_t) /\ Positive(w.S_b) /\ Positive(w.S_f)
          /\ Below(w.S_t, w.S_b)
          /\ Below(w.S_b, w.S_f)

ChartsOf(k) == {c \in charts : k \in c.scenarios}

\* The run is past the statements that report invalid slopes.
Reported == pc \in {"plot", "idle"}

RunCompleted == pc = "idle"

\* C11: on the advanced page, a scenario whose slopes fail validation is
\* reported as a result, not a fault: no run ends at an exception; once the
\* run is past the warnings, and so when it has completed, the error naming
\* that scenario is shown; and no chart of that scenario is ever rendered,
\* whether "Plot on a single graph" is checked or not.
C11_InvalidReported ==
    model_choice = Advanced =>
        /\ pc # "raised"
        /\ \A k \in {1, 2} :
              SlopesFail(k) =>
                  /\ Reported => k \in errors
                  /\ ChartsOf(k) = {}

\* A completed single-graph run in which scenario 1 has S_t = S_b and
\* scenario 2 has valid slopes: the error names scenario 1, nothing is drawn.
C11_Witness ==
    /\ RunCompleted
    /\ model_choice = Advanced
    /\ plot_on_single_graph
    /\ SlopesFail(1) /\ ~SlopesFail(2)
    /\ AllNaN(scen[1].shoreline)
    /\ errors = {1}
    /\ charts = {}

\* (2 * q_s * t) / denom, before np.where replaces a negative value by 0
Radicand(q_s, ti, denom) == Div(Mul(Mul(Int2R(2), q_s), ti), denom)

NotNegative(x) == x.d > 0 /\ x.n >= 0

\* C12: for every call of the advanced model whose slopes satisfy
\* 0 < S_t < S_b < S_f, each divisor is strictly positive: S_b - S_t,
\* S_f - S_b, S_b, alpha + beta and denom = S_b * (alpha + beta), and so is
\* every divisor of a division the call has performed; and when q_s >= 0, at
\* every sample with t > 0 the radicand 2 * q_s * t / denom is >= 0 and the
\* clamp leaves it as it is.
C12_DivisorsPositive ==
    (ReturnedAdvanced /\ SlopesOrdered) =>
        LET S_t == call.S_t
            S_f == call.S_f
            S_b == call.S_b
            denom == denom_of(S_t, S_f, S_b)
        IN  /\ Positive(Add(S_b, Neg(S_t)))
            /\ Positive(Add(S_f, Neg(S_b)))
            /\ Positive(S_b)
            /\ Positive(Add(alpha_of(S_t, S_b), beta_of(S_f, S_b)))
            /\ Positive(denom)
            /\ \A d \in ret.divisions : d.of = "slope" => Positive(d.by)
            /\ ~zero_division(ret.divisions)
            /\ NotNegative(call.q_s) =>
                   \A i \in DOMAIN ret.t :
                       Positive(ret.t[i]) =>
                           /\ NotNegative(Radicand(call.q_s, ret.t[i], denom))
                           /\ sqrt_arg_of(call.q_s, ret.t[i], denom)
                                  = Radicand(call.q_s, ret.t[i], denom)

\* A call with valid slopes and q_s > 0 that has performed its four
\* divisions and has a positive radicand at its last sample.
C12_Witness ==
    /\ ReturnedAdvanced
    /\ SlopesOrdered
    /\ Positive(call.q_s)
    /\ {d.term : d \in {e \in ret.divisions : e.of = "slope"}} = {1, 2, 3, 4}
    /\ Positive(ret.t[NumSamples])
    /\ Positive(Radicand(call.q_s, ret.t[NumSamples],
                         denom_of(call.S_t, call.S_f, call.S_b)))

\* The charts whose ranges the range unification has set.
UnifiedCharts == {c \in charts : c.x_range # <<>> \/ c.y_range # <<>>}

HasNaN(a) == \E i \in DOMAIN a : IsNaN(a[i])

\* The series the range unification of a run works on.
UnifiedSeries ==
    {scen[1].eta, scen[2].eta, scen[1].shoreline, scen[2].shoreline}

\* C13: on the advanced page, charts are there only in runs in which both
\* scenarios have valid slopes and neither flag is set; while either
\* scenario is invalid there is no chart of either scenario and no range
\* unification; and whenever the range unification has set the ranges of a
\* chart, none of the four series it worked on contains NaN.
C13_ChartsOnlyWhenBothValid ==
    model_choice = Advanced =>
        /\ charts # {} =>
              /\ invalid = {}
              /\ \A k \in {1, 2} : ~SlopesFail(k)
        /\ ((\E k \in {1, 2} : SlopesFail(k)) \/ invalid # {}) =>
              /\ charts = {}
              /\ UnifiedCharts = {}
        /\ UnifiedCharts # {} => \A a \in UnifiedSeries : ~HasNaN(a)

\* A completed run with separate graphs and unified axes in which scenario 1
\* is valid and has a series of numbers, scenario 2 is invalid, and nothing
\* is drawn.
C13_Witness ==
    /\ RunCompleted
    /\ model_choice = Advanced
    /\ ~plot_on_single_graph
    /\ align_axes
    /\ ~SlopesFail(1) /\ SlopesFail(2)
    /\ invalid = {2}
    /\ ~HasNaN(scen[1].shoreline)
    /\ HasNaN(scen[2].shoreline)
    /\ charts = {}

=============================================================================
